---------------------------- MODULE Spec2Model ----------------------------
(***************************************************************************)
(* Model of the pledge sale / vesting / reward program (src/src/lib.rs).   *)
(*                                                                         *)
(* The persisted state is the 32-byte account buffer.  Every handler       *)
(* decodes it (UserState::try_from_slice), works on the decoded record and *)
(* writes the re-encoded record back (copy_from_slice).                    *)
(*                                                                         *)
(* u64 values are kept at their full width.  TLC's integers are 32 bits    *)
(* wide, so a u64 is a sequence of four 16-bit limbs, least significant    *)
(* limb first, and a u128 a sequence of eight.  The arithmetic operators   *)
(* return the wrapped result together with an overflow flag; whether an    *)
(* overflow panics or wraps depends on the build profile                   *)
(* (overflow-checks), which the variable overflow_checks fixes per run.    *)
(***************************************************************************)
EXTENDS Integers, Sequences, FiniteSets, TLC

VARIABLES
    data,             \* account_info.data: the persisted 32-byte record
    overflow_checks,  \* build profile: TRUE = arithmetic overflow panics
    pc,               \* "idle", or position inside claim_rewards
    pending,          \* amount handed to the transfer that is in flight
    transfers,        \* amounts moved by transfers that succeeded, in order
    last,             \* the last completed call: op, arguments, record before, result
    budget,           \* number of calls the run may still start
    phase_in,         \* get_sale_phase on its own: the arguments
    phase_out         \* get_sale_phase on its own: the result, once computed

vars == <<data, overflow_checks, pc, pending, transfers, last, budget,
          phase_in, phase_out>>

---------------------------------------------------------------------------
(* Bounds of the model *)

\* calls per run from the zero record, and from an arbitrary record
MaxSteps == 3
MaxStepsAny == 2
\* calls per run of repeated buy / accrue / claim rounds
MaxStepsPool == 6

---------------------------------------------------------------------------
(* Multi-limb unsigned arithmetic *)

Base == 256 * 256

Zeros(n) == [i \in 1..n |-> 0]

\* zero-extend (widening cast) to n limbs
Widen(a, n) == a \o Zeros(n - Len(a))

\* keep the n low limbs (narrowing `as` cast)
Truncate(a, n) == SubSeq(a, 1, n)

IsZero(a) == \A i \in 1..Len(a) : a[i] = 0

\* TRUE iff limbs above the n-th are not all zero
Overflows(a, n) == \E i \in (n+1)..Len(a) : a[i] # 0

RECURSIVE MulLimbs(_, _, _)
\* a * k + carry for a small scalar k: Len(a) + 1 limbs, exact
MulLimbs(a, k, carry) ==
    IF a = <<>> THEN <<carry>>
    ELSE LET p == Head(a) * k + carry
         IN  <<p % Base>> \o MulLimbs(Tail(a), k, p \div Base)

RECURSIVE AddLimbs(_, _, _)
\* a + b + carry for equally long a, b: Len(a) + 1 limbs, exact
AddLimbs(a, b, carry) ==
    IF a = <<>> THEN <<carry>>
    ELSE LET s == Head(a) + Head(b) + carry
         IN  <<s % Base>> \o AddLimbs(Tail(a), Tail(b), s \div Base)

RECURSIVE SubLimbs(_, _, _)
\* a - b - borrow modulo Base^Len(a), followed by the final borrow
SubLimbs(a, b, borrow) ==
    IF a = <<>> THEN <<borrow>>
    ELSE LET d == Head(a) - Head(b) - borrow
         IN  <<IF d < 0 THEN d + Base ELSE d>>
             \o SubLimbs(Tail(a), Tail(b), IF d < 0 THEN 1 ELSE 0)

RECURSIVE DivFrom(_, _, _, _)
\* long division of the i low limbs of a by a small scalar k, given the
\* remainder rem left by the limbs above them; most significant limb first
DivFrom(a, k, i, rem) ==
    IF i = 0 THEN <<>>
    ELSE LET cur == rem * Base + a[i]
         IN  DivFrom(a, k, i - 1, cur % k) \o <<cur \div k>>

\* a \div k for a small scalar k
DivLimbs(a, k) == DivFrom(a, k, Len(a), 0)

\* a < b for equally long a, b: decided at the highest limb that differs
Lt(a, b) ==
    \E i \in 1..Len(a) :
        /\ a[i] < b[i]
        /\ \A j \in (i + 1)..Len(a) : a[j] = b[j]
Le(a, b) == ~Lt(b, a)
Gt(a, b) == Lt(b, a)
Ge(a, b) == ~Lt(a, b)

RECURSIVE FromDigits(_, _)
\* the n-limb value of a decimal numeral given as its digits
FromDigits(digits, n) ==
    IF digits = <<>> THEN Zeros(n)
    ELSE LET m == Len(digits)
         IN  Truncate(MulLimbs(FromDigits(SubSeq(digits, 1, m - 1), n),
                               10, digits[m]), n)

\* the n-limb value of a TLC integer 0 <= x < 2^31
FromInt(x, n) == Widen(<<x % Base, x \div Base>>, n)

---------------------------------------------------------------------------
(* u64 and u128 *)

W64 == 64 \div 16
W128 == 128 \div 16

U64(x) == FromInt(x, W64)
U64_ZERO == Zeros(W64)
U64_MAX == [i \in 1..W64 |-> Base - 1]

\* a * b in u64 for a scalar b < Base: wrapped value and overflow flag
u64_mul(a, b) ==
    LET full == MulLimbs(a, b, 0)
    IN  [val |-> Truncate(full, W64), overflow |-> Overflows(full, W64)]

u64_add(a, b) ==
    LET full == AddLimbs(a, b, 0)
    IN  [val |-> Truncate(full, W64), overflow |-> Overflows(full, W64)]

u64_sub(a, b) ==
    LET full == SubLimbs(a, b, 0)
    IN  [val |-> Truncate(full, W64), overflow |-> Overflows(full, W64)]

u64_wrapping_sub(a, b) == u64_sub(a, b).val

u64_saturating_sub(a, b) == IF Lt(a, b) THEN U64_ZERO ELSE u64_sub(a, b).val

u64_wrapping_add(a, b) == u64_add(a, b).val

u64_saturating_add(a, b) ==
    LET r == u64_add(a, b) IN IF r.overflow THEN U64_MAX ELSE r.val

u64_min(a, b) == IF Lt(b, a) THEN b ELSE a

u64_max(a, b) == IF Lt(a, b) THEN b ELSE a

\* a * b in u128 for a scalar b < Base
u128_mul(a, b) ==
    LET full == MulLimbs(a, b, 0)
    IN  [val |-> Truncate(full, W128), overflow |-> Overflows(full, W128)]

---------------------------------------------------------------------------
(* Constants of the program *)

TOTAL_PLEDGE_SUPPLY == 100000000
TOTAL_SOLHIT_SUPPLY == 14000000
LOCKED_SOLHIT_TOKENS == 4000000
VESTING_PERIOD == 63072000
REWARD_RATE == 40
PHASE_LENGTH == 1296000

PHASE_DURATIONS ==
    <<U64(PHASE_LENGTH), U64(PHASE_LENGTH), U64(PHASE_LENGTH), U64(PHASE_LENGTH),
      U64_MAX>>
PHASE_RATES == <<200, 175, 150, 125, 100>>

\* PledgeContract::new()
PledgeContract ==
    [total_pledge_supply  |-> U64(TOTAL_PLEDGE_SUPPLY),
     solhit_token_supply  |-> U64(TOTAL_SOLHIT_SUPPLY),
     locked_solhit_tokens |-> U64(LOCKED_SOLHIT_TOKENS),
     vesting_period       |-> U64(VESTING_PERIOD),
     reward_rate          |-> REWARD_RATE,
     phase_durations      |-> PHASE_DURATIONS,
     phase_rates          |-> PHASE_RATES]

---------------------------------------------------------------------------
(* The record and its codec *)

UserState(l, r, s, v) ==
    [locked_pledge_tokens |-> l, solhit_rewards |-> r,
     lock_start_time |-> s, vesting_end_time |-> v]

ZeroState == UserState(U64_ZERO, U64_ZERO, U64_ZERO, U64_ZERO)

RECORD_SIZE == 4 * 8

RECURSIVE LimbsToBytes(_)
LimbsToBytes(a) ==
    IF a = <<>> THEN <<>>
    ELSE <<Head(a) % 256, Head(a) \div 256>> \o LimbsToBytes(Tail(a))

\* u64::serialize: the eight bytes of the value, least significant first
u64_serialize(a) == LimbsToBytes(a)

\* u64::deserialize on the eight bytes b
u64_deserialize(b) == [i \in 1..W64 |-> b[2 * i - 1] + 256 * b[2 * i]]

\* <UserState as BorshSerialize>::serialize
serialize(user_state) ==
    u64_serialize(user_state.locked_pledge_tokens)
    \o u64_serialize(user_state.solhit_rewards)
    \o u64_serialize(user_state.lock_start_time)
    \o u64_serialize(user_state.vesting_end_time)

serialize_user_state(user_state) == serialize(user_state)

\* <UserState as BorshDeserialize>::deserialize on a buffer of >= 32 bytes
deserialize(buf) ==
    UserState(u64_deserialize(SubSeq(buf, 1, 8)),
              u64_deserialize(SubSeq(buf, 9, 16)),
              u64_deserialize(SubSeq(buf, 17, 24)),
              u64_deserialize(SubSeq(buf, 25, 32)))

\* a decoder that reads the first 32 bytes and ignores what follows
try_from_slice_prefix(buf) ==
    IF Len(buf) >= RECORD_SIZE
    THEN [ok |-> TRUE, state |-> deserialize(buf)]
    ELSE [ok |-> FALSE, state |-> ZeroState]

\* UserState::try_from_slice: fails on a short buffer and on unread bytes
try_from_slice(buf) ==
    IF Len(buf) = RECORD_SIZE
    THEN [ok |-> TRUE, state |-> deserialize(buf)]
    ELSE [ok |-> FALSE, state |-> ZeroState]

---------------------------------------------------------------------------
(* get_sale_phase *)

NoPanic(i) == [panicked |-> FALSE, index |-> i]
Panicked == [panicked |-> TRUE, index |-> 0]

RECURSIVE sale_phase_loop(_, _, _, _, _)
\* the loop from iteration i (1-based) on, with elapsed_time accumulated so far
sale_phase_loop(current_time, phase_durations, i, elapsed_time, checks) ==
    IF i > Len(phase_durations) THEN NoPanic(Len(phase_durations) - 1)
    ELSE LET sum == u64_add(elapsed_time, phase_durations[i])
         IN  IF checks /\ sum.overflow THEN Panicked
             ELSE IF Lt(current_time, sum.val) THEN NoPanic(i - 1)
             ELSE sale_phase_loop(current_time, phase_durations, i + 1,
                                  sum.val, checks)

get_sale_phase(current_time, phase_durations, checks) ==
    sale_phase_loop(current_time, phase_durations, 1, U64_ZERO, checks)

---------------------------------------------------------------------------
(* buy_pledge *)

Outcome(result, user_state) == [result |-> result, user_state |-> user_state]

\* the check with the tokens already locked left out of it
cap_exceeded_ignoring_locked(pledge_tokens, remaining) ==
    Gt(pledge_tokens, U64(TOTAL_PLEDGE_SUPPLY))

\* line 129: pledge_tokens > total_pledge_supply - locked_pledge_tokens
cap_exceeded(pledge_tokens, remaining) == Gt(pledge_tokens, remaining)

buy_pledge(user_state, amount, current_time, checks) ==
    LET pledge_contract == PledgeContract
        sale_phase == get_sale_phase(current_time, pledge_contract.phase_durations,
                                     checks)
        rate == pledge_contract.phase_rates[sale_phase.index + 1]
        product == u64_mul(amount, rate)
        pledge_tokens == DivLimbs(product.val, 100)
        remaining == u64_sub(pledge_contract.total_pledge_supply,
                             user_state.locked_pledge_tokens)
        locked == u64_add(user_state.locked_pledge_tokens, pledge_tokens)
        vesting_end == u64_add(current_time, pledge_contract.vesting_period)
    IN  IF sale_phase.panicked THEN Outcome("Panic", user_state)
        ELSE IF checks /\ product.overflow THEN Outcome("Panic", user_state)
        ELSE IF checks /\ remaining.overflow THEN Outcome("Panic", user_state)
        ELSE IF cap_exceeded(pledge_tokens, remaining.val)
             THEN Outcome("InvalidArgument", user_state)
        ELSE IF checks /\ locked.overflow THEN Outcome("Panic", user_state)
        ELSE IF checks /\ vesting_end.overflow THEN Outcome("Panic", user_state)
        ELSE Outcome("Ok",
                     UserState(locked.val,
                               user_state.solhit_rewards,
                               current_time,
                               u64_max(user_state.vesting_end_time, vesting_end.val)))

---------------------------------------------------------------------------
(* update_reward *)

\* an unlock that clears the deadline and leaves the tokens locked
unlock_vested_tokens_keeps_locked(user_state) ==
    [user_state EXCEPT !.vesting_end_time = U64_ZERO]

unlock_vested_tokens(user_state) ==
    [user_state EXCEPT !.locked_pledge_tokens = U64_ZERO,
                       !.vesting_end_time = U64_ZERO]

\* update_reward storing the newly minted amount in place of the sum
update_reward_overwrites(user_state, current_time, checks) ==
    LET pledge_contract == PledgeContract
        elapsed_time == u64_saturating_sub(current_time, user_state.lock_start_time)
        wide == u128_mul(Widen(user_state.locked_pledge_tokens, W128),
                         pledge_contract.reward_rate)
        solhit_rewards == Truncate(wide.val, W64)
    IN  IF Ge(elapsed_time, pledge_contract.vesting_period)
        THEN Outcome("Ok",
               unlock_vested_tokens(
                 [user_state EXCEPT
                    !.solhit_rewards = solhit_rewards,
                    !.lock_start_time = current_time]))
        ELSE IF Ge(current_time, user_state.vesting_end_time)
        THEN Outcome("Ok", unlock_vested_tokens(user_state))
        ELSE Outcome("Ok", user_state)

\* update_reward with its two conditions unified: either one mints
update_reward_unified(user_state, current_time, checks) ==
    LET pledge_contract == PledgeContract
        elapsed_time == u64_saturating_sub(current_time, user_state.lock_start_time)
        wide == u128_mul(Widen(user_state.locked_pledge_tokens, W128),
                         pledge_contract.reward_rate)
        solhit_rewards == Truncate(wide.val, W64)
    IN  IF \/ Ge(elapsed_time, pledge_contract.vesting_period)
           \/ Ge(current_time, user_state.vesting_end_time)
        THEN Outcome("Ok",
               unlock_vested_tokens(
                 [user_state EXCEPT
                    !.solhit_rewards =
                        u64_saturating_add(user_state.solhit_rewards,
                                           solhit_rewards),
                    !.lock_start_time = current_time]))
        ELSE Outcome("Ok", user_state)

update_reward(user_state, current_time, checks) ==
    LET pledge_contract == PledgeContract
        elapsed_time == u64_saturating_sub(current_time, user_state.lock_start_time)
        wide == u128_mul(Widen(user_state.locked_pledge_tokens, W128),
                         pledge_contract.reward_rate)
        solhit_rewards == Truncate(wide.val, W64)
    IN  IF Ge(elapsed_time, pledge_contract.vesting_period)
        THEN IF checks /\ wide.overflow THEN Outcome("Panic", user_state)
             ELSE Outcome("Ok",
                    unlock_vested_tokens(
                      [user_state EXCEPT
                         !.solhit_rewards =
                             u64_saturating_add(user_state.solhit_rewards,
                                                solhit_rewards),
                         !.lock_start_time = current_time]))
        ELSE IF Ge(current_time, user_state.vesting_end_time)
        THEN Outcome("Ok", unlock_vested_tokens(user_state))
        ELSE Outcome("Ok", user_state)

---------------------------------------------------------------------------
(* claim_rewards, in the three pieces its one external call cuts it into *)

\* the check with the comparison against the claimable pool left out
claim_rewards_check_unchecked(user_state, has_token_account) ==
    IF IsZero(user_state.solhit_rewards) THEN "Ok"
    ELSE IF ~has_token_account THEN "NotEnoughAccountKeys"
    ELSE "Invoke"

\* the check with the early return on a zero balance left out
claim_rewards_check_no_early_return(user_state, has_token_account) ==
    IF ~has_token_account THEN "NotEnoughAccountKeys"
    ELSE IF Gt(user_state.solhit_rewards,
               U64(TOTAL_SOLHIT_SUPPLY - LOCKED_SOLHIT_TOKENS))
         THEN "InsufficientFunds"
    ELSE "Invoke"

\* lines 189-208: up to the transfer.  "Invoke" means the transfer is called.
claim_rewards_check(user_state, has_token_account) ==
    LET pledge_contract == PledgeContract
        transfer_to_user_amount == user_state.solhit_rewards
        remaining_solhit_tokens ==
            u64_saturating_sub(pledge_contract.solhit_token_supply,
                               pledge_contract.locked_solhit_tokens)
    IN  IF IsZero(user_state.solhit_rewards) THEN "Ok"
        ELSE IF ~has_token_account THEN "NotEnoughAccountKeys"
        ELSE IF Gt(transfer_to_user_amount, remaining_solhit_tokens)
             THEN "InsufficientFunds"
        ELSE "Invoke"

\* lines 221-222: after the transfer has returned Ok
claim_rewards_commit(user_state) ==
    [user_state EXCEPT !.solhit_rewards = U64_ZERO]

---------------------------------------------------------------------------
(* Inputs *)

\* 2^64 / 200 rounded up: the least amount whose product with rate 200 wraps
WRAP_AMOUNT == FromDigits(<<9,2,2,3,3,7,2,0,3,6,8,5,4,7,7,5,9>>, W64)

AmountInputs == { U64_ZERO, U64(1000), U64(50000000), WRAP_AMOUNT }

TimeInputs ==
    { U64(1000000), U64(PHASE_LENGTH), U64(VESTING_PERIOD + 1000000), U64_MAX }

\* records an account buffer may hold that no run from the zero record builds
ArbitraryStates ==
    { ZeroState,
      UserState(U64(TOTAL_PLEDGE_SUPPLY), U64_ZERO, U64_ZERO, U64(VESTING_PERIOD)),
      UserState(U64(TOTAL_PLEDGE_SUPPLY + 1), U64(5), U64_ZERO, U64(VESTING_PERIOD)),
      UserState(U64(1000), U64_MAX, U64(1000000), U64(VESTING_PERIOD + 1000000)),
      UserState(U64_MAX, U64(80000), U64_ZERO, U64_ZERO),
      UserState(FromDigits(<<9,2,2,3,3,7,2,0,3,6,8,5,4,7,7,5,8,0,8>>, W64),
                U64(7), U64(1000000), U64_MAX),
      UserState(U64(1000), U64(5), U64(1000000), U64(PHASE_LENGTH)) }

ArbitraryBuffers ==
    { serialize(r) : r \in ArbitraryStates }
    \cup { [i \in 1..RECORD_SIZE |-> i] }
    \cup { [i \in 1..(RECORD_SIZE - 1) |-> 0], [i \in 1..(RECORD_SIZE + 1) |-> 0] }

---------------------------------------------------------------------------
(* State machine *)

\* a call as seen from outside: its arguments, the record and the number of
\* completed transfers it found, and what it returned ("InFlight": not yet)
Call(op, amount, time, pre, result) ==
    [op |-> op, amount |-> amount, time |-> time, pre |-> pre,
     sent |-> Len(transfers), result |-> result]

NoCall ==
    [op |-> "none", amount |-> U64_ZERO, time |-> U64_ZERO, pre |-> ZeroState,
     sent |-> 0, result |-> "Ok"]

NoPhaseQuery == [time |-> U64_ZERO, durations |-> PHASE_DURATIONS]
NoPhaseResult == [done |-> FALSE, panicked |-> FALSE, index |-> 0]

InitWith(buffers, calls) ==
    /\ data \in buffers
    /\ overflow_checks \in BOOLEAN
    /\ pc = "idle"
    /\ pending = U64_ZERO
    /\ transfers = <<>>
    /\ last = NoCall
    /\ budget = calls
    /\ phase_in = NoPhaseQuery
    /\ phase_out = NoPhaseResult

\* a freshly allocated account: vec![0u8; size_of::<UserState>()]
Init == InitWith({ [i \in 1..RECORD_SIZE |-> 0] }, MaxSteps)

\* an account whose bytes the caller supplies
InitAny == InitWith(ArbitraryBuffers, MaxStepsAny)

Ready == pc = "idle" /\ budget > 0

\* what a handler does when UserState::try_from_slice fails
DecodeFails(op, amount, time) ==
    /\ last' = Call(op, amount, time, ZeroState, "DecodeError")
    /\ UNCHANGED data

BuyPledge(amount, current_time) ==
    /\ Ready
    /\ budget' = budget - 1
    /\ LET decoded == try_from_slice(data)
           out == buy_pledge(decoded.state, amount, current_time, overflow_checks)
       IN  IF ~decoded.ok THEN DecodeFails("buy_pledge", amount, current_time)
           ELSE /\ data' = IF out.result = "Ok"
                           THEN serialize_user_state(out.user_state)
                           ELSE data
                /\ last' = Call("buy_pledge", amount, current_time,
                                decoded.state, out.result)
    /\ UNCHANGED <<overflow_checks, pc, pending, transfers, phase_in, phase_out>>

UpdateReward(current_time) ==
    /\ Ready
    /\ budget' = budget - 1
    /\ LET decoded == try_from_slice(data)
           out == update_reward(decoded.state, current_time, overflow_checks)
       IN  IF ~decoded.ok THEN DecodeFails("update_reward", U64_ZERO, current_time)
           ELSE /\ data' = IF out.result = "Ok"
                           THEN serialize_user_state(out.user_state)
                           ELSE data
                /\ last' = Call("update_reward", U64_ZERO, current_time,
                                decoded.state, out.result)
    /\ UNCHANGED <<overflow_checks, pc, pending, transfers, phase_in, phase_out>>

ViewRewards ==
    /\ Ready
    /\ budget' = budget - 1
    /\ LET decoded == try_from_slice(data)
       IN  IF ~decoded.ok THEN DecodeFails("view_rewards", U64_ZERO, U64_ZERO)
           ELSE /\ last' = Call("view_rewards", U64_ZERO, U64_ZERO,
                                decoded.state, "Ok")
                /\ UNCHANGED data
    /\ UNCHANGED <<overflow_checks, pc, pending, transfers, phase_in, phase_out>>

\* claim_rewards with the balance zeroed before the transfer is called
ClaimRewardsZeroFirst(has_token_account) ==
    /\ Ready
    /\ budget' = budget - 1
    /\ LET decoded == try_from_slice(data)
           verdict == claim_rewards_check(decoded.state, has_token_account)
       IN  IF ~decoded.ok
           THEN /\ DecodeFails("claim_rewards", U64_ZERO, U64_ZERO)
                /\ UNCHANGED <<pc, pending>>
           ELSE IF verdict = "Invoke"
           THEN /\ pc' = "invoke"
                /\ pending' = decoded.state.solhit_rewards
                /\ last' = Call("claim_rewards", U64_ZERO, U64_ZERO,
                                decoded.state, "InFlight")
                /\ data' = serialize_user_state(claim_rewards_commit(decoded.state))
           ELSE /\ last' = Call("claim_rewards", U64_ZERO, U64_ZERO,
                                decoded.state, verdict)
                /\ UNCHANGED <<data, pc, pending>>
    /\ UNCHANGED <<overflow_checks, transfers, phase_in, phase_out>>

\* claim_rewards up to the call of invoke_signed
ClaimRewards(has_token_account) ==
    /\ Ready
    /\ budget' = budget - 1
    /\ LET decoded == try_from_slice(data)
           verdict == claim_rewards_check(decoded.state, has_token_account)
       IN  IF ~decoded.ok
           THEN /\ DecodeFails("claim_rewards", U64_ZERO, U64_ZERO)
                /\ UNCHANGED <<pc, pending>>
           ELSE IF verdict = "Invoke"
           THEN /\ pc' = "invoke"
                /\ pending' = decoded.state.solhit_rewards
                /\ last' = Call("claim_rewards", U64_ZERO, U64_ZERO,
                                decoded.state, "InFlight")
                /\ UNCHANGED data
           ELSE /\ last' = Call("claim_rewards", U64_ZERO, U64_ZERO,
                                decoded.state, verdict)
                /\ UNCHANGED <<data, pc, pending>>
    /\ UNCHANGED <<overflow_checks, transfers, phase_in, phase_out>>

\* invoke_signed returns Err and claim_rewards goes on to clear the balance
TransferFailsIgnored ==
    /\ pc = "invoke"
    /\ pc' = "idle"
    /\ pending' = U64_ZERO
    /\ data' = serialize_user_state(claim_rewards_commit(try_from_slice(data).state))
    /\ last' = [last EXCEPT !.result = "TransferFailed"]
    /\ UNCHANGED <<overflow_checks, transfers, budget, phase_in, phase_out>>

\* invoke_signed returns Err: `?` returns it from claim_rewards
TransferFails ==
    /\ pc = "invoke"
    /\ pc' = "idle"
    /\ pending' = U64_ZERO
    /\ last' = [last EXCEPT !.result = "TransferFailed"]
    /\ UNCHANGED <<data, overflow_checks, transfers, budget, phase_in, phase_out>>

\* invoke_signed returns Ok: the tokens have moved
TransferSucceeds ==
    /\ pc = "invoke"
    /\ pc' = "invoked"
    /\ transfers' = Append(transfers, pending)
    /\ UNCHANGED <<data, overflow_checks, pending, last, budget, phase_in, phase_out>>

\* claim_rewards after the transfer: lines 221-230
ClaimRewardsCommit ==
    /\ pc = "invoked"
    /\ LET decoded == try_from_slice(data)
       IN  /\ data' = serialize_user_state(claim_rewards_commit(decoded.state))
           /\ last' = [last EXCEPT !.result = "Ok"]
    /\ pc' = "idle"
    /\ pending' = U64_ZERO
    /\ UNCHANGED <<overflow_checks, transfers, budget, phase_in, phase_out>>

Next ==
    \/ \E amount \in AmountInputs, t \in TimeInputs : BuyPledge(amount, t)
    \/ \E t \in TimeInputs : UpdateReward(t)
    \/ ViewRewards
    \/ \E has_token_account \in BOOLEAN : ClaimRewards(has_token_account)
    \/ TransferFails
    \/ TransferSucceeds
    \/ ClaimRewardsCommit

Spec == Init /\ [][Next]_vars

SpecAny == InitAny /\ [][Next]_vars

---------------------------------------------------------------------------
(* Repeated rounds of purchase, accrual and claim, from the zero record *)

\* at rate 200 this locks 250000 tokens, worth exactly the claimable pool
\* purchase times for which current_time + vesting_period fits in u64
SafeTimes == { t \in TimeInputs : ~u64_add(t, U64(VESTING_PERIOD)).overflow }

NextSafe ==
    \/ \E amount \in AmountInputs, t \in SafeTimes : BuyPledge(amount, t)
    \/ \E t \in TimeInputs : UpdateReward(t)
    \/ ViewRewards
    \/ \E has_token_account \in BOOLEAN : ClaimRewards(has_token_account)
    \/ TransferFails
    \/ TransferSucceeds
    \/ ClaimRewardsCommit

SpecSafe == Init /\ [][NextSafe]_vars

PoolAmounts == { U64(125000), U64(50000000) }

PoolTimes == { U64(1000000), U64(VESTING_PERIOD + 1000000) }

InitPool == InitWith({ [i \in 1..RECORD_SIZE |-> 0] }, MaxStepsPool)

NextPool ==
    \/ \E amount \in PoolAmounts, t \in PoolTimes : BuyPledge(amount, t)
    \/ \E t \in PoolTimes : UpdateReward(t)
    \/ ClaimRewards(TRUE)
    \/ TransferFails
    \/ TransferSucceeds
    \/ ClaimRewardsCommit

SpecPool == InitPool /\ [][NextPool]_vars

---------------------------------------------------------------------------
(* get_sale_phase on its own, over chosen times and duration tables *)

SHORT_DURATIONS == <<U64(100), U64(100), U64(100), U64(100), U64_MAX>>

TEN_TO_12 == FromDigits(<<1,0,0,0,0,0,0,0,0,0,0,0,0>>, W64)

PhaseTimes ==
    { U64(0), U64(99), U64(100), U64(101), U64(199), U64(200), U64(299),
      U64(300), U64(399), U64(400), U64(401),
      U64(PHASE_LENGTH - 1), U64(PHASE_LENGTH),
      U64(4 * PHASE_LENGTH - 1), U64(4 * PHASE_LENGTH),
      TEN_TO_12, U64_MAX }

PhaseDurations == { SHORT_DURATIONS, PHASE_DURATIONS }

InitPhase ==
    /\ data = [i \in 1..RECORD_SIZE |-> 0]
    /\ overflow_checks \in BOOLEAN
    /\ pc = "idle"
    /\ pending = U64_ZERO
    /\ transfers = <<>>
    /\ last = NoCall
    /\ budget = 0
    /\ phase_in \in [time : PhaseTimes, durations : PhaseDurations]
    /\ phase_out = NoPhaseResult

GetSalePhase ==
    /\ ~phase_out.done
    /\ LET r == get_sale_phase(phase_in.time, phase_in.durations, overflow_checks)
       IN  phase_out' = [done |-> TRUE, panicked |-> r.panicked, index |-> r.index]
    /\ UNCHANGED <<data, overflow_checks, pc, pending, transfers, last, budget,
                   phase_in>>

NextPhase == GetSalePhase

SpecPhase == InitPhase /\ [][NextPhase]_vars

---------------------------------------------------------------------------
(* Exact (unbounded) arithmetic the properties are stated in *)

\* the record the account holds now
Current == try_from_slice(data).state

WIDE == W64 + 2

Exact(a) == Widen(a, WIDE)

ExactAdd(a, b) == Truncate(AddLimbs(Exact(a), Exact(b), 0), WIDE)

RECURSIVE ExactSum(_, _)
\* the sum of the first n entries of durations, as an integer
ExactSum(durations, n) ==
    IF n = 0 THEN Zeros(WIDE)
    ELSE ExactAdd(ExactSum(durations, n - 1), durations[n])

\* the first index i (0-based) with time < durations[0] + ... + durations[i]
ExactPhase(time, durations) ==
    CHOOSE i \in 0..(Len(durations) - 1) :
        /\ Lt(Exact(time), ExactSum(durations, i + 1))
        /\ \A j \in 0..(i - 1) : ~Lt(Exact(time), ExactSum(durations, j + 1))

\* floor(amount * rate / 100) at the rate of the phase of the time
ExactGranted(amount, time) ==
    Exact(DivLimbs(MulLimbs(amount, PHASE_RATES[ExactPhase(time, PHASE_DURATIONS) + 1], 0),
                   100))

ExactMax(a, b) == IF Lt(a, b) THEN b ELSE a

Cap == U64(TOTAL_PLEDGE_SUPPLY)

BuyDone == last.op = "buy_pledge" /\ last.result # "DecodeError"

AccrueDone == last.op = "update_reward" /\ last.result # "DecodeError"

---------------------------------------------------------------------------
(* Properties *)

\* C1: a successful purchase adds floor(amount * rate / 100) to
\* locked_pledge_tokens, sets lock_start_time to the purchase time and
\* vesting_end_time to max(old, time + VESTING_PERIOD), and leaves
\* solhit_rewards alone.
C1_PurchaseEffect ==
    (BuyDone /\ last.result = "Ok") =>
        /\ Exact(Current.locked_pledge_tokens)
             = ExactAdd(last.pre.locked_pledge_tokens,
                        ExactGranted(last.amount, last.time))
        /\ Current.lock_start_time = last.time
        /\ Exact(Current.vesting_end_time)
             = ExactMax(Exact(last.pre.vesting_end_time),
                        ExactAdd(last.time, U64(VESTING_PERIOD)))
        /\ Current.solhit_rewards = last.pre.solhit_rewards

\* C2: a purchase whose granted amount exceeds what is left of the cap fails
\* with InvalidArgument (CapExceeded) and leaves the record as it was; one
\* whose granted amount fits is not rejected for the cap.
C2_CapRejectsExactly ==
    BuyDone =>
        LET granted == ExactGranted(last.amount, last.time)
            remaining == Exact(u64_saturating_sub(Cap, last.pre.locked_pledge_tokens))
        IN  /\ Gt(granted, remaining) =>
                  last.result = "InvalidArgument" /\ Current = last.pre
            /\ Le(granted, remaining) => last.result # "InvalidArgument"

\* C3: from the zero record, locked_pledge_tokens never exceeds
\* TOTAL_PLEDGE_SUPPLY.
C3_LockedWithinCap == Le(Current.locked_pledge_tokens, Cap)

C3_Witness ==
    /\ BuyDone /\ last.result = "Ok"
    /\ Current.locked_pledge_tokens = Cap

\* C4: for every amount, the purchase never aborts on arithmetic overflow,
\* what a successful purchase adds is the exact floor(amount * rate / 100),
\* and no purchase whose exact granted amount exceeds the rest of the cap is
\* accepted.
C4_NoWrapInGrant ==
    BuyDone =>
        LET granted == ExactGranted(last.amount, last.time)
        IN  /\ last.result # "Panic"
            /\ last.result = "Ok" =>
                 /\ Exact(Current.locked_pledge_tokens)
                      = ExactAdd(last.pre.locked_pledge_tokens, granted)
                 /\ Le(ExactAdd(last.pre.locked_pledge_tokens, granted), Exact(Cap))

\* C5: on a record whose locked_pledge_tokens is at or above the cap, a
\* purchase granting more than zero is rejected with InvalidArgument and one
\* granting zero succeeds and leaves locked_pledge_tokens as it was.
C5_CapCheckNoUnderflow ==
    (BuyDone /\ Ge(last.pre.locked_pledge_tokens, Cap)) =>
        IF IsZero(ExactGranted(last.amount, last.time))
        THEN /\ last.result = "Ok"
             /\ Current.locked_pledge_tokens = last.pre.locked_pledge_tokens
        ELSE /\ last.result = "InvalidArgument"
             /\ Current = last.pre

\* C6: with a duration table ending in u64::MAX, get_sale_phase does not
\* overflow and returns the first index whose cumulative boundary lies above
\* the time.
C6_PhaseResolved ==
    (phase_out.done /\ phase_in.durations[5] = U64_MAX) =>
        /\ ~phase_out.panicked
        /\ phase_out.index = ExactPhase(phase_in.time, phase_in.durations)

\* C7: an accrual called once VESTING_PERIOD has elapsed since lock_start_time
\* sets solhit_rewards to min(u64::MAX, old + locked * REWARD_RATE), the
\* product taken exactly, zeroes locked_pledge_tokens and vesting_end_time and
\* sets lock_start_time to the time of the call.
C7_MaturedAccrual ==
    (/\ AccrueDone
     /\ Ge(u64_saturating_sub(last.time, last.pre.lock_start_time),
           U64(VESTING_PERIOD))) =>
        LET minted == MulLimbs(Exact(last.pre.locked_pledge_tokens), REWARD_RATE, 0)
            total == AddLimbs(Widen(last.pre.solhit_rewards, WIDE + 1), minted, 0)
        IN  /\ last.result = "Ok"
            /\ Current.solhit_rewards
                 = IF Overflows(total, W64) THEN U64_MAX ELSE Truncate(total, W64)
            /\ IsZero(Current.locked_pledge_tokens)
            /\ IsZero(Current.vesting_end_time)
            /\ Current.lock_start_time = last.time

\* C8: solhit_rewards never decreases, except in the step of claim_rewards
\* that follows a transfer that succeeded, which sets it to zero.
C8_RewardMonotone ==
    [][ Lt(try_from_slice(data').state.solhit_rewards, Current.solhit_rewards) =>
            /\ pc = "invoked"
            /\ Len(transfers) = last.sent + 1
            /\ last'.op = "claim_rewards" /\ last'.result = "Ok"
            /\ IsZero(try_from_slice(data').state.solhit_rewards) ]_vars

C8_Witness ==
    /\ last.op = "claim_rewards" /\ last.result = "Ok"
    /\ Lt(Current.solhit_rewards, last.pre.solhit_rewards)

\* C9: when the transfer fails, claim_rewards returns the error and the
\* record is the record the call found; no transfer is counted.
C9_FailedTransferKeepsRecord ==
    (last.op = "claim_rewards" /\ last.result = "TransferFailed") =>
        /\ Current = last.pre
        /\ Len(transfers) = last.sent

C9_Witness ==
    /\ last.op = "claim_rewards" /\ last.result = "TransferFailed"
    /\ ~IsZero(last.pre.solhit_rewards)
    /\ pc = "idle"

ClaimablePool == U64(TOTAL_SOLHIT_SUPPLY - LOCKED_SOLHIT_TOKENS)

\* C10: with 0 < solhit_rewards <= claimable pool, claim_rewards calls the
\* transfer once, for the balance it found; the record is untouched until the
\* transfer has succeeded, and afterwards only solhit_rewards has changed,
\* to zero.
C10_TransferThenZero ==
    /\ pc \in {"invoke", "invoked"} =>
          /\ last.op = "claim_rewards" /\ last.result = "InFlight"
          /\ Current = last.pre
          /\ pending = last.pre.solhit_rewards
          /\ ~IsZero(pending) /\ Le(pending, ClaimablePool)
          /\ pc = "invoke" => Len(transfers) = last.sent
          /\ pc = "invoked" => /\ Len(transfers) = last.sent + 1
                               /\ transfers[Len(transfers)] = pending
    /\ (last.op = "claim_rewards" /\ last.result = "Ok"
          /\ ~IsZero(last.pre.solhit_rewards)) =>
          /\ Len(transfers) = last.sent + 1
          /\ transfers[Len(transfers)] = last.pre.solhit_rewards
          /\ Current = [last.pre EXCEPT !.solhit_rewards = U64_ZERO]
    /\ (last.op = "claim_rewards" /\ ~IsZero(last.pre.solhit_rewards)
          /\ Le(last.pre.solhit_rewards, ClaimablePool)) =>
          last.result \in {"InFlight", "Ok", "TransferFailed", "NotEnoughAccountKeys"}

C10_Witness ==
    /\ last.op = "claim_rewards" /\ last.result = "Ok"
    /\ ~IsZero(last.pre.solhit_rewards)
    /\ ~IsZero(last.pre.lock_start_time)
    /\ transfers = <<last.pre.solhit_rewards>>

ClaimDone == last.op = "claim_rewards" /\ last.result # "DecodeError"

\* C11: with solhit_rewards above the claimable pool, claim_rewards fails
\* with InsufficientFunds (InsufficientPool; NotEnoughAccountKeys when the
\* caller passed no token account), calls no transfer and leaves the record
\* as it was.
C11_PoolRejects ==
    (ClaimDone /\ Gt(last.pre.solhit_rewards, ClaimablePool)) =>
        /\ pc = "idle"
        /\ last.result \in {"InsufficientFunds", "NotEnoughAccountKeys"}
        /\ Len(transfers) = last.sent
        /\ Current = last.pre

C11_Witness ==
    /\ ClaimDone /\ last.result = "InsufficientFunds"
    /\ Gt(last.pre.solhit_rewards, ClaimablePool)
    /\ Current = last.pre

\* C12: on a zero balance claim_rewards returns Ok, calls no transfer and
\* leaves the record as it was, also right after a claim that was paid.
C12_ZeroClaimNoOp ==
    (ClaimDone /\ IsZero(last.pre.solhit_rewards)) =>
        /\ pc = "idle"
        /\ last.result = "Ok"
        /\ Len(transfers) = last.sent
        /\ Current = last.pre

C12_Witness ==
    /\ ClaimDone /\ last.result = "Ok"
    /\ IsZero(last.pre.solhit_rewards)
    /\ Len(transfers) = 1
    /\ last.sent = 1

RECURSIVE SumOf(_)
\* the sum of a sequence of u64 amounts, as an integer
SumOf(amounts) ==
    IF amounts = <<>> THEN Zeros(WIDE)
    ELSE ExactAdd(SumOf(Tail(amounts)), Head(amounts))

\* C13: the reward tokens moved by all successful transfers together never
\* exceed TOTAL_SOLHIT_SUPPLY - LOCKED_SOLHIT_TOKENS.
C13_ReservedNeverPaid == Le(SumOf(transfers), Exact(ClaimablePool))

\* TRUE iff the last call was an accrual that took one of its two branches
Unlocked ==
    /\ AccrueDone
    /\ \/ Ge(u64_saturating_sub(last.time, last.pre.lock_start_time),
             U64(VESTING_PERIOD))
       \/ Ge(last.time, last.pre.vesting_end_time)

C14_Monotone ==
    (last.op # "none" /\ last.result # "DecodeError" /\ ~Unlocked
       /\ ~IsZero(last.pre.vesting_end_time)) =>
        Ge(Current.vesting_end_time, last.pre.vesting_end_time)

\* C14: once vesting_end_time is non-zero, every call but an unlocking
\* accrual leaves it at least as large, and each successful purchase at time
\* t sets it to max(old, t + VESTING_PERIOD), whatever the order of the times.
C14_VestingEndGrows ==
    /\ C14_Monotone
    /\ (BuyDone /\ last.result = "Ok") =>
          Exact(Current.vesting_end_time)
            = ExactMax(Exact(last.pre.vesting_end_time),
                       ExactAdd(last.time, U64(VESTING_PERIOD)))

\* elapsed_since_lock < VESTING_PERIOD for the last call, stated exactly:
\* time < lock_start_time + VESTING_PERIOD
NotMatured ==
    Lt(Exact(last.time), ExactAdd(last.pre.lock_start_time, U64(VESTING_PERIOD)))

\* C15: update_reward returns Ok for every record and time; a time before
\* lock_start_time mints nothing; and when less than VESTING_PERIOD has
\* elapsed and the time is below vesting_end_time the record is unchanged.
C15_AccrueTotalAndFramed ==
    AccrueDone =>
        /\ last.result = "Ok"
        /\ Lt(last.time, last.pre.lock_start_time) =>
              Current.solhit_rewards = last.pre.solhit_rewards
        /\ (NotMatured /\ Lt(last.time, last.pre.vesting_end_time)) =>
              Current = last.pre

C15_Witness ==
    /\ AccrueDone /\ last.result = "Ok"
    /\ Lt(last.time, last.pre.lock_start_time)
    /\ Lt(last.time, last.pre.vesting_end_time)
    /\ ~IsZero(last.pre.locked_pledge_tokens)
    /\ Current = last.pre

\* C16: an accrual with less than VESTING_PERIOD elapsed and a time at or
\* past vesting_end_time zeroes locked_pledge_tokens and vesting_end_time and
\* leaves solhit_rewards and lock_start_time as they were; when VESTING_PERIOD
\* has elapsed as well, the minting branch runs (lock_start_time is reset).
C16_UnlockOnly ==
    (AccrueDone /\ Ge(last.time, last.pre.vesting_end_time)) =>
        /\ IsZero(Current.locked_pledge_tokens)
        /\ IsZero(Current.vesting_end_time)
        /\ NotMatured =>
              /\ Current.solhit_rewards = last.pre.solhit_rewards
              /\ Current.lock_start_time = last.pre.lock_start_time
        /\ ~NotMatured => Current.lock_start_time = last.time

C16_Witness ==
    /\ AccrueDone /\ NotMatured
    /\ Ge(last.time, last.pre.vesting_end_time)
    /\ ~IsZero(last.pre.vesting_end_time)
    /\ ~IsZero(last.pre.locked_pledge_tokens)
    /\ ~IsZero(last.pre.solhit_rewards)
    /\ IsZero(Current.locked_pledge_tokens)
    /\ Current.solhit_rewards = last.pre.solhit_rewards

\* byte i (1..8) of the u64 a, least significant first
ByteOf(a, i) ==
    LET limb == a[(i + 1) \div 2]
    IN  IF i % 2 = 1 THEN limb % 256 ELSE limb \div 256

\* the fields of a record in the order of the struct declaration
FieldsOf(r) ==
    << r.locked_pledge_tokens, r.solhit_rewards,
       r.lock_start_time, r.vesting_end_time >>

\* C17: decoding and encoding are inverse to each other on records and on
\* 32-byte buffers, the buffer holds the four fields in declaration order as
\* little-endian u64, the zero buffer is the zero record, and a buffer of any
\* other length fails to decode (every handler then returns the error).
C17_CodecBijection ==
    /\ try_from_slice(data).ok <=> Len(data) = RECORD_SIZE
    /\ Len(data) = RECORD_SIZE =>
          /\ serialize(try_from_slice(data).state) = data
          /\ try_from_slice(serialize(Current)) = [ok |-> TRUE, state |-> Current]
          /\ \A k \in 1..4 : \A i \in 1..8 :
                data[8 * (k - 1) + i] = ByteOf(FieldsOf(Current)[k], i)
          /\ (\A i \in 1..RECORD_SIZE : data[i] = 0) <=> Current = ZeroState
    /\ \A r \in ArbitraryStates :
          /\ Len(serialize(r)) = RECORD_SIZE
          /\ try_from_slice(serialize(r)) = [ok |-> TRUE, state |-> r]
    /\ last.op # "none" => (last.result = "DecodeError" <=> Len(data) # RECORD_SIZE)

C17_Witness ==
    /\ BuyDone /\ last.result = "Ok"
    /\ ~IsZero(last.amount)
    /\ Current # last.pre
    /\ Current.vesting_end_time[2] # 0
    /\ data[1] # 0 /\ data[2] # 0
    /\ try_from_slice(data).ok

\* REWARD_RATE * a, as an integer
ExactReward(a) == Truncate(MulLimbs(Exact(a), REWARD_RATE, 0), WIDE)

\* C18: from the zero record, with purchase times for which
\* current_time + VESTING_PERIOD fits in u64, a record with locked tokens has
\* vesting_end_time >= lock_start_time + VESTING_PERIOD; so an accrual takes
\* the unlock-only branch only with no tokens locked, and an accrual that
\* zeroes locked tokens adds REWARD_RATE times their number to solhit_rewards.
C18_DeadlinesOrdered ==
    /\ ~IsZero(Current.locked_pledge_tokens) =>
          Ge(Exact(Current.vesting_end_time),
             ExactAdd(Current.lock_start_time, U64(VESTING_PERIOD)))
    /\ (AccrueDone /\ NotMatured /\ Ge(last.time, last.pre.vesting_end_time)) =>
          IsZero(last.pre.locked_pledge_tokens)
    /\ (AccrueDone /\ ~IsZero(last.pre.locked_pledge_tokens)
          /\ IsZero(Current.locked_pledge_tokens)) =>
          Exact(Current.solhit_rewards)
            = ExactAdd(last.pre.solhit_rewards,
                       ExactReward(last.pre.locked_pledge_tokens))

C18_Witness ==
    /\ AccrueDone /\ last.result = "Ok"
    /\ Gt(last.pre.lock_start_time, last.time)
    /\ ~IsZero(Current.locked_pledge_tokens)
    /\ Gt(Exact(Current.vesting_end_time),
          ExactAdd(Current.lock_start_time, U64(VESTING_PERIOD)))

\* the balances that successful claims have cleared: every completed
\* transfer but the one whose claim has not yet reached line 221
Zeroed ==
    SumOf(IF pc = "invoked" THEN SubSeq(transfers, 1, Len(transfers) - 1)
          ELSE transfers)

\* rewards minted so far, plus those the locked tokens of the record stand
\* for, given the sum of the balances cleared so far
AccountedOf(user_state, zeroed) ==
    ExactAdd(ExactAdd(user_state.solhit_rewards, zeroed),
             ExactReward(user_state.locked_pledge_tokens))

Accounted == AccountedOf(Current, Zeroed)

\* the same quantity when the last call started
AccountedBefore ==
    AccountedOf(last.pre, SumOf(SubSeq(transfers, 1, last.sent)))

\* what the last call granted, if it was a successful purchase
GrantedLast ==
    IF BuyDone /\ last.result = "Ok"
    THEN ExactGranted(last.amount, last.time)
    ELSE Zeros(WIDE)

\* C19: solhit_rewards plus the balances cleared by successful claims equals
\* REWARD_RATE * (sum of the grants of successful purchases - locked tokens):
\* it is so for the zero record, and every call adds REWARD_RATE times its
\* grant to solhit_rewards + cleared balances + REWARD_RATE * locked tokens.
\* A purchase mints nothing, an accrual that mints leaves no tokens locked, and an accrual
\* with no tokens locked (so every accrual repeated after it) mints nothing.
C19_RewardConserved ==
    /\ last.op = "none" => Accounted = Zeros(WIDE)
    /\ (last.op # "none" /\ last.result # "DecodeError") =>
          Accounted = ExactAdd(AccountedBefore, ExactReward(GrantedLast))
    /\ BuyDone => Current.solhit_rewards = last.pre.solhit_rewards
    /\ (AccrueDone /\ Current.solhit_rewards # last.pre.solhit_rewards) =>
          IsZero(Current.locked_pledge_tokens)
    /\ (AccrueDone /\ IsZero(last.pre.locked_pledge_tokens)) =>
          Current.solhit_rewards = last.pre.solhit_rewards

C19_Witness ==
    /\ AccrueDone /\ last.result = "Ok"
    /\ Len(transfers) >= 1
    /\ IsZero(last.pre.locked_pledge_tokens)
    /\ ~IsZero(Current.solhit_rewards)
    /\ Current.solhit_rewards = last.pre.solhit_rewards
    /\ Accounted = ExactReward(Exact(U64(500000)))

\* C20: once solhit_rewards is above the claimable pool it stays above it:
\* a call that finds such a balance leaves a balance above the pool, pays
\* nothing, and, if it is a claim (made with both accounts, as every claim
\* of SpecPool is), returns InsufficientFunds.
C20_AbovePoolAbsorbing ==
    (last.op # "none" /\ last.result # "DecodeError"
       /\ Gt(last.pre.solhit_rewards, ClaimablePool)) =>
        /\ Gt(Current.solhit_rewards, ClaimablePool)
        /\ pc = "idle"
        /\ Len(transfers) = last.sent
        /\ ClaimDone => last.result = "InsufficientFunds"

C20_Witness ==
    /\ ClaimDone /\ last.result = "InsufficientFunds"
    /\ Gt(Exact(last.pre.solhit_rewards), ExactReward(U64(TOTAL_PLEDGE_SUPPLY)))
    /\ Current = last.pre
    /\ transfers = <<>>

===========================================================================
